---- MODULE Spec2Model ----
(***************************************************************************)
(* State-machine model of src/game.js ("Silly Sums"): the session          *)
(* counters, the single-player countdown, the two-player round with its    *)
(* countdown / intermission / summary timeouts, the achievement            *)
(* notifications and the persisted leaderboard.                            *)
(*                                                                         *)
(* Time is discrete, in units of 500 ms.  Every timeout and interval keeps  *)
(* the units left until it is due; a due timer runs before time advances,  *)
(* timers due together run in any order, and user input may arrive between *)
(* any two steps.  Every handler runs to completion in one step.           *)
(***************************************************************************)
EXTENDS Integers, Sequences, FiniteSets, TLC

VARIABLES
    page,                 \* which document is loaded: "game" or "leaderboard"
    currentOperation,     \* game.js:11
    currentDifficulty,    \* game.js:12
    currentProblem,       \* the operands and answer generateNewProblem produced
    options,              \* the options array of generateOptions
    mathRandom,           \* results of Math.random() still to be handed out
    score,                \* game.js:13
    streak,               \* game.js:14
    totalAttempts,        \* game.js:15
    totalTime,            \* game.js:23 (whole seconds in the model)
    timerActive,          \* game.js:16
    timeRemaining,        \* game.js:17
    timerInterval,        \* game.js:18: state of the interval the handle names
    timerDue,             \* units until that interval's next callback
    orphanTimerIntervals, \* live single-player intervals no handle names
    isMultiplayer,        \* game.js:19
    currentPlayer,        \* game.js:20
    p1Score,              \* game.js:21
    p2Score,              \* game.js:22
    isMultiplayerRound,   \* game.js:25
    multiplayerTimer,     \* game.js:26
    multiplayerInterval,  \* game.js:27: state of the interval the handle names
    turnDue,              \* units until that interval's next callback
    orphanIntervals,      \* live per-turn intervals no handle names any more
    pending,              \* bag of setTimeout callbacks not yet run, with units left
    optionsDisabled,      \* pointer-events of the current option buttons
    announcement,         \* #winner-announcement: text and 'show' class
    confettiAnimating,    \* confetti.isAnimating
    statsShown,           \* #score / #streak / #accuracy text
    notifications,        \* achievement notifications appended to the body
    lsCurrentPlayer,      \* localStorage 'currentPlayer'
    lsLeaderboard,        \* localStorage 'leaderboard'
    lsReport,             \* localStorage 'accuracy','questionsSolved','avgTime'
    recorded              \* history: every score handed to updateLeaderboard

vars == <<page, currentOperation, currentDifficulty, currentProblem, options,
          mathRandom, score, streak, totalAttempts, totalTime,
          timerActive, timeRemaining, timerInterval, timerDue, orphanTimerIntervals,
          isMultiplayer, currentPlayer, p1Score, p2Score, isMultiplayerRound,
          multiplayerTimer, multiplayerInterval, turnDue, orphanIntervals, pending,
          optionsDisabled, announcement, confettiAnimating, statsShown,
          notifications, lsCurrentPlayer, lsLeaderboard, lsReport, recorded>>

sessionVars == <<score, streak, totalAttempts, totalTime>>
timerVars == <<timerActive, timeRemaining, timerInterval, timerDue, orphanTimerIntervals>>
roundVars == <<isMultiplayer, currentPlayer, p1Score, p2Score, isMultiplayerRound,
               multiplayerTimer, multiplayerInterval, turnDue, orphanIntervals>>
storeVars == <<lsCurrentPlayer, lsLeaderboard, recorded>>
problemVars == <<currentDifficulty, currentProblem, options, mathRandom>>

-----------------------------------------------------------------------------
(* Bounds of the model                                                      *)

MaxAttempts == 2
MaxElapsed == 1
MaxPending == 1
MaxRoundPending == 2
MaxOrphans == 1
MaxOvershoot == 1
MaxRecords == 1
MaxNotifications == 8
MaxSessionAttempts == 20
MaxBoardCalls == 6
MaxBoardScore == 2
MaxAnswer == 3
RandomSteps == 80
OptionRandomSteps == 10

(* Program constants                                                        *)

TimerStart == 30
TurnSeconds == 15
BoardSize == 5
CountdownSteps == 4

\* delays, in units of 500 ms
IntervalUnits == 2
ShowUnits == 2
GapUnits == 1
IntermissionUnits == 16
SummaryUnits == 6
TimerEndUnits == 6
AccuracyRequired == 100
AccuracyQuestions == 15
OptionCount == 4
OffsetRange == 5

-----------------------------------------------------------------------------
(* Values                                                                   *)

Operations == {"addition", "subtraction", "multiplication", "division"}
OperationChoices == {"addition", "division"}
DifficultyChoices == {"easy", "hard"}
StreakRequirements == {5, 10, 15, 20}
AchievementIds == {"streak5", "streak10", "streak15", "streak20", "accuracy100_15"}

Absent == "<absent>"

\* an interval handle: never assigned, naming a live interval, or naming a
\* cleared one
Undefined == "undefined"
Live == "live"
Cleared == "cleared"

NaN == [nan |-> TRUE, value |-> 0]
Num(n) == [nan |-> FALSE, value |-> n]

\* Math.round of the non-negative quotient n / d
Round(n, d) == (2 * n + d) \div (2 * d)

NoReport == [written |-> FALSE, accuracy |-> 0, questionsSolved |-> 0, avgTime |-> 0]

NoAnnouncement == [kind |-> "none", a |-> 0, b |-> 0, shown |-> FALSE]

\* the problem of the main specifications: they leave the operands to the
\* moment of the answer (the inputs of checkAnswer) and keep only what
\* generateNewProblem does to the option buttons
\* a JavaScript number that is an integer, and the result of a / b
whole(n) == [whole |-> TRUE, value |-> n]
quotient(a, b) == [whole |-> a % b = 0, value |-> a \div b]

NoProblem == [num1 |-> 0, num2 |-> 0, answer |-> whole(0), generated |-> FALSE]
NoOptions == [values |-> <<>>, shown |-> FALSE]

RECURSIVE SumOver(_, _)
SumOver(f, S) ==
    IF S = {} THEN 0
    ELSE LET x == CHOOSE y \in S : TRUE IN f[x] + SumOver(f, S \ {x})

\* bags, as functions from the members present to their positive counts
EmptyBag == [x \in {} |-> 0]
BagSize(bag) == SumOver(bag, DOMAIN bag)
BagAdd(bag, x) ==
    [y \in DOMAIN bag \cup {x} |->
        IF y \in DOMAIN bag THEN bag[y] + (IF y = x THEN 1 ELSE 0) ELSE 1]
BagRemove(bag, x) ==
    [y \in {z \in DOMAIN bag : z # x \/ bag[z] > 1} |->
        IF y = x THEN bag[y] - 1 ELSE bag[y]]

\* a pending timeout is <<kind, step, units left>>
NoPending == EmptyBag
PendingCount == BagSize(pending)
PendingOf(bag, k) ==
    SumOver(bag, {t \in DOMAIN bag : t[1] = k[1] /\ t[2] = k[2]})
NotificationCount == SumOver(notifications, AchievementIds)

setTimeout(bag, k, delay) == BagAdd(bag, <<k[1], k[2], delay>>)
isDue(bag, k) == <<k[1], k[2], 0>> \in DOMAIN bag
timeoutRuns(bag, k) == BagRemove(bag, <<k[1], k[2], 0>>)

\* a set of orphaned intervals is the bag of their units left
NoIntervals == EmptyBag
tickOf(bag) == BagAdd(BagRemove(bag, 0), IntervalUnits)

\* time passing over a bag of timeouts and over a bag of intervals
elapseTimeouts(bag) ==
    [t \in {<<u[1], u[2], u[3] - 1>> : u \in DOMAIN bag} |-> bag[<<t[1], t[2], t[3] + 1>>]]
elapseIntervals(bag) ==
    [r \in {u - 1 : u \in DOMAIN bag} |-> bag[r + 1]]

\* clearInterval(handle); `if (handle)` guards make no difference: an
\* undefined or already cleared handle stays what it is
clearInterval(handle) == IF handle = Live THEN Cleared ELSE handle

-----------------------------------------------------------------------------
(* Leaderboard store                                                        *)

NoBoard == [tag |-> "absent", entries |-> <<>>]
MalformedBoard == [tag |-> "malformed", entries |-> <<>>]

JSONstringify(entries) == [tag |-> "json", entries |-> entries]

\* JSON.parse(localStorage.getItem('leaderboard') || '[]'): an absent item is
\* the empty array; a stored array is read back; anything else throws
parseThrows(item) == item.tag = "malformed"
JSONparse(item) == IF item.tag = "json" THEN item.entries ELSE <<>>

\* Array.prototype.sort((a, b) => b.score - a.score): stable, descending
\* ties resolved the other way: the new entry placed before its equals
RECURSIVE insertBeforeTies(_, _)
insertBeforeTies(sorted, e) ==
    IF sorted = <<>> THEN <<e>>
    ELSE IF Head(sorted).score > e.score
         THEN <<Head(sorted)>> \o insertBeforeTies(Tail(sorted), e)
         ELSE <<e>> \o sorted

RECURSIVE insertSorted(_, _)
insertSorted(sorted, e) ==
    IF sorted = <<>> THEN <<e>>
    ELSE IF Head(sorted).score >= e.score
         THEN <<Head(sorted)>> \o insertSorted(Tail(sorted), e)
         ELSE <<e>> \o sorted

\* the comparator turned round: a.score - b.score
RECURSIVE sortAscending(_)
sortAscending(list) ==
    IF list = <<>> THEN <<>>
    ELSE LET rest == sortAscending(SubSeq(list, 1, Len(list) - 1))
             e == list[Len(list)]
             before == SelectSeq(rest, LAMBDA x : x.score <= e.score)
             after == SelectSeq(rest, LAMBDA x : x.score > e.score)
         IN before \o <<e>> \o after

RECURSIVE sortByScore(_)
sortByScore(list) ==
    IF list = <<>> THEN <<>>
    ELSE insertSorted(sortByScore(SubSeq(list, 1, Len(list) - 1)), list[Len(list)])

slice(list, n) == SubSeq(list, 1, IF Len(list) < n THEN Len(list) ELSE n)

resolveName(playerName, stored) ==
    IF playerName # Absent THEN playerName
    ELSE IF stored # Absent THEN stored ELSE "Anonymous"

updateLeaderboard(item, playerName, stored, newScore) ==
    LET name == resolveName(playerName, stored)
        pushed == Append(JSONparse(item), [name |-> name, score |-> newScore])
    IN JSONstringify(slice(sortByScore(pushed), BoardSize))

\* history of the scores recorded, kept as a descending list
RECURSIVE noteScore(_, _)
noteScore(hist, s) ==
    IF hist = <<>> THEN <<s>>
    ELSE IF s >= Head(hist) THEN <<s>> \o hist
         ELSE <<Head(hist)>> \o noteScore(Tail(hist), s)

-----------------------------------------------------------------------------
(* Initial state: the script's top-level declarations, then                 *)
(* generateNewProblem() at game.js:853                                      *)

ProblemStart ==
    /\ currentOperation = "addition"
    /\ currentDifficulty = "easy"
    /\ currentProblem = NoProblem
    /\ options = NoOptions
    /\ mathRandom = <<>>

GameStart ==
    /\ score = 0
    /\ streak = 0
    /\ totalAttempts = 0
    /\ totalTime = 0
    /\ timerActive = FALSE
    /\ timeRemaining = TimerStart
    /\ timerInterval = Undefined
    /\ timerDue = 0
    /\ orphanTimerIntervals = NoIntervals
    /\ isMultiplayer = FALSE
    /\ currentPlayer = 1
    /\ p1Score = 0
    /\ p2Score = 0
    /\ isMultiplayerRound = FALSE
    /\ multiplayerTimer = TurnSeconds
    /\ multiplayerInterval = Undefined
    /\ turnDue = 0
    /\ orphanIntervals = NoIntervals
    /\ pending = NoPending
    /\ optionsDisabled = FALSE
    /\ announcement = NoAnnouncement
    /\ confettiAnimating = FALSE
    /\ statsShown = [score |-> 0, streak |-> 0, accuracy |-> Num(0)]
    /\ notifications = [a \in AchievementIds |-> 0]

ScriptStart == ProblemStart /\ GameStart

\* the same declarations, run when the document is (re)loaded
loadScript ==
    /\ currentOperation' = "addition"
    /\ currentDifficulty' = "easy"
    /\ currentProblem' = NoProblem
    /\ options' = NoOptions
    /\ mathRandom' = <<>>
    /\ score' = 0
    /\ streak' = 0
    /\ totalAttempts' = 0
    /\ totalTime' = 0
    /\ timerActive' = FALSE
    /\ timeRemaining' = TimerStart
    /\ timerInterval' = Undefined
    /\ timerDue' = 0
    /\ orphanTimerIntervals' = NoIntervals
    /\ isMultiplayer' = FALSE
    /\ currentPlayer' = 1
    /\ p1Score' = 0
    /\ p2Score' = 0
    /\ isMultiplayerRound' = FALSE
    /\ multiplayerTimer' = TurnSeconds
    /\ multiplayerInterval' = Undefined
    /\ turnDue' = 0
    /\ orphanIntervals' = NoIntervals
    /\ pending' = NoPending
    /\ optionsDisabled' = FALSE
    /\ announcement' = NoAnnouncement
    /\ confettiAnimating' = FALSE
    /\ statsShown' = [score |-> 0, streak |-> 0, accuracy |-> Num(0)]
    /\ notifications' = [a \in AchievementIds |-> 0]

Init ==
    /\ page = "game"
    /\ ScriptStart
    /\ lsCurrentPlayer = "Ann"
    /\ lsLeaderboard = NoBoard
    /\ lsReport = NoReport
    /\ recorded = <<>>

-----------------------------------------------------------------------------
(* Achievements (game.js:34-48)                                             *)

streaks ==
    { [id |-> "streak5", requirement |-> 5],
      [id |-> "streak10", requirement |-> 10],
      [id |-> "streak15", requirement |-> 15],
      [id |-> "streak20", requirement |-> 20] }

accuracy ==
    { [id |-> "accuracy100_15", accuracy |-> AccuracyRequired,
       questions |-> AccuracyQuestions] }

\* achievement.awarded of an accuracy achievement: the object literal has no
\* such property and no statement assigns one, so the read yields undefined
accuracyAwarded(achievement) == FALSE

\* the comparison widened to "at least"
streaksDueAtLeast(st) == {a \in streaks : st >= a.requirement}

\* the achievements checkAchievements hands to awardAchievement
streaksDue(st) == {a \in streaks : st = a.requirement}

accuracyDue(sc, att) ==
    {a \in accuracy : /\ ~accuracyAwarded(a)
                      /\ att = a.questions
                      /\ sc * 100 = a.accuracy * att}

awardAchievement(shown, due) ==
    [id \in AchievementIds |->
        shown[id] + IF \E a \in due : a.id = id THEN 1 ELSE 0]

checkAchievements(sc, st, att) ==
    notifications' = awardAchievement(notifications,
                                      streaksDue(st) \cup accuracyDue(sc, att))

-----------------------------------------------------------------------------
(* Display and report helpers                                               *)

\* updateStats: score / totalAttempts is NaN when both are 0
updateStats(sc, st, att) ==
    statsShown' = [score |-> sc, streak |-> st,
                   accuracy |-> IF att = 0 THEN NaN ELSE Num(Round(sc * 100, att))]

updateReportData(sc, att, time) ==
    lsReport' = [written |-> TRUE,
                 accuracy |-> IF att > 0 THEN Round(sc * 100, att) ELSE 0,
                 questionsSolved |-> att,
                 avgTime |-> IF att > 0 THEN Round(time, att) ELSE 0]

\* generateNewProblem replaces the option buttons; new buttons accept clicks
generateNewProblem == optionsDisabled' = FALSE

disableOptions(disable) == optionsDisabled' = disable

-----------------------------------------------------------------------------
(* checkAnswer (game.js:366-396)                                            *)

\* every correct answer counted twice
scoreDoubled(isCorrect, sc) == IF isCorrect THEN sc + 2 ELSE sc

scoreAfter(isCorrect, sc) == IF isCorrect THEN sc + 1 ELSE sc

\* a wrong answer that leaves the streak standing
streakKept(isCorrect, st) == IF isCorrect THEN st + 1 ELSE st

streakAfter(isCorrect, st) == IF isCorrect THEN st + 1 ELSE 0

\* the player is credited whether or not the answer was correct
roundScoreAnyAnswer(isCorrect, isCurrent, sc) ==
    IF isMultiplayerRound /\ isCurrent THEN sc + 1 ELSE sc

\* a player's score after an answer: in a round a correct answer credits
\* Player 1 when currentPlayer === 1, otherwise Player 2
roundScoreAfter(isCorrect, isCurrent, sc) ==
    IF isCorrect /\ isMultiplayerRound /\ isCurrent THEN sc + 1 ELSE sc

checkAnswer(selected, correct, elapsed) ==
    LET isCorrect == selected = correct
        newScore == scoreAfter(isCorrect, score)
        newStreak == streakAfter(isCorrect, streak)
    IN /\ page = "game"
       /\ ~optionsDisabled
       /\ totalAttempts' = totalAttempts + 1
       /\ totalTime' = totalTime + elapsed
       /\ score' = newScore
       /\ streak' = newStreak
       /\ p1Score' = roundScoreAfter(isCorrect, currentPlayer = 1, p1Score)
       /\ p2Score' = roundScoreAfter(isCorrect, currentPlayer # 1, p2Score)
       /\ updateStats(newScore, newStreak, totalAttempts + 1)
       /\ checkAchievements(newScore, newStreak, totalAttempts + 1)
       /\ updateReportData(newScore, totalAttempts + 1, totalTime + elapsed)
       /\ generateNewProblem
       /\ UNCHANGED <<page, problemVars, currentOperation, timerVars, isMultiplayer, currentPlayer,
                      isMultiplayerRound, multiplayerTimer, multiplayerInterval,
                      turnDue, orphanIntervals, pending, announcement,
                      confettiAnimating, storeVars>>

\* setOperation (game.js:231-239)
setOperation(operation) ==
    /\ page = "game"
    /\ currentOperation' = operation
    /\ generateNewProblem
    /\ UNCHANGED <<page, problemVars, sessionVars, timerVars, roundVars, pending,
                   announcement, confettiAnimating, statsShown, notifications,
                   lsReport, storeVars>>

\* setDifficulty (game.js:245-252)
setDifficulty(difficulty) ==
    /\ page = "game"
    /\ currentDifficulty' = difficulty
    /\ generateNewProblem
    /\ UNCHANGED <<page, currentOperation, currentProblem, options, mathRandom,
                   sessionVars, timerVars, roundVars, pending, announcement,
                   confettiAnimating, statsShown, notifications, lsReport, storeVars>>

-----------------------------------------------------------------------------
(* resetGame (game.js:591-607)                                              *)

resetFields ==
    /\ score' = 0
    /\ streak' = 0
    /\ totalAttempts' = 0
    /\ p1Score' = 0
    /\ p2Score' = 0
    /\ currentPlayer' = 1
    /\ totalTime' = 0
    /\ isMultiplayerRound' = FALSE
    /\ multiplayerInterval' = clearInterval(multiplayerInterval)
    /\ updateStats(0, 0, 0)
    /\ updateReportData(0, 0, 0)

resetGame ==
    /\ resetFields
    /\ generateNewProblem

-----------------------------------------------------------------------------
(* Single-player countdown (game.js:411-453)                                *)

toggleTimer ==
    /\ page = "game"
    /\ timerActive' = ~timerActive
    /\ IF ~timerActive
       THEN /\ score' = 0
            /\ timeRemaining' = TimerStart
            /\ timerInterval' = Live
            /\ timerDue' = IntervalUnits
            /\ orphanTimerIntervals' =
                   IF timerInterval = Live
                   THEN BagAdd(orphanTimerIntervals, timerDue)
                   ELSE orphanTimerIntervals
       ELSE /\ timerInterval' = clearInterval(timerInterval)
            /\ UNCHANGED <<score, timeRemaining, timerDue, orphanTimerIntervals>>
    /\ UNCHANGED <<page, problemVars, currentOperation, streak, totalAttempts, totalTime, roundVars,
                   pending, optionsDisabled, announcement, confettiAnimating,
                   statsShown, notifications, lsReport, storeVars>>

\* the score read after resetGame has run
scoreAfterReset == 0

\* the score showTimerEndMessage reads: the interval callback calls it before
\* resetGame (game.js:422-423)
finalScore == score

\* showTimerEndMessage up to its setTimeout; the JSON.parse inside
\* updateLeaderboard throws on a malformed item
showTimerEndMessage ==
    /\ lsLeaderboard' = updateLeaderboard(lsLeaderboard, lsCurrentPlayer,
                                          lsCurrentPlayer, finalScore)
    /\ recorded' = noteScore(recorded, finalScore)
    /\ announcement' = [kind |-> "timerEnd", a |-> finalScore, b |-> 0, shown |-> TRUE]
    /\ pending' = setTimeout(pending, <<"timerEnd", 0>>, TimerEndUnits)

\* the body of the interval callback of toggleTimer (game.js:417-425)
timerCallback ==
    /\ timeRemaining' = timeRemaining - 1
    /\ IF timeRemaining - 1 <= 0
       THEN /\ timerInterval' = clearInterval(timerInterval)
            /\ IF parseThrows(lsLeaderboard)
               THEN UNCHANGED <<sessionVars, currentPlayer, p1Score, p2Score,
                                isMultiplayerRound, multiplayerInterval, pending,
                                optionsDisabled, announcement, statsShown, lsReport,
                                lsLeaderboard, recorded>>
               ELSE /\ showTimerEndMessage
                    /\ resetGame
       ELSE UNCHANGED <<timerInterval, sessionVars, currentPlayer, p1Score, p2Score,
                        isMultiplayerRound, multiplayerInterval, pending,
                        optionsDisabled, announcement, statsShown, lsReport,
                        lsLeaderboard, recorded>>
    /\ UNCHANGED <<page, problemVars, currentOperation, timerActive, isMultiplayer, multiplayerTimer,
                   turnDue, orphanIntervals, confettiAnimating, notifications,
                   lsCurrentPlayer>>

\* the interval timerInterval names is due and runs its callback; toggleTimer
\* starts an interval only after clearing the one before, so no interval
\* runs unnamed (orphanTimerIntervals stays empty)
timerTick ==
    /\ page = "game"
    /\ timerInterval = Live /\ timerDue = 0
    /\ timerDue' = IntervalUnits
    /\ UNCHANGED orphanTimerIntervals
    /\ timerCallback

\* the 3000 ms timeout of showTimerEndMessage (game.js:449-452): the game
\* document is replaced by leaderboard.html, its script state and timers end
timerEndTimeout ==
    /\ page = "game"
    /\ isDue(pending, <<"timerEnd", 0>>)
    /\ page' = "leaderboard"
    /\ loadScript
    /\ UNCHANGED <<lsReport, storeVars>>

\* mathgame.html is opened again: the script starts afresh
openGame ==
    /\ page = "leaderboard"
    /\ page' = "game"
    /\ loadScript
    /\ UNCHANGED <<lsReport, storeVars>>

-----------------------------------------------------------------------------
(* Two-player round (game.js:186-212, 462-586)                              *)

\* showCountdown: options are disabled and showNumber shows counts[0], leaving
\* the 1000 ms timeout of step 1 pending
showCountdown(bag) ==
    /\ disableOptions(TRUE)
    /\ pending' = setTimeout(bag, <<"cdShow", 1>>, ShowUnits)

\* startMultiplayerRound: the assignments after resetGame() repeat its values;
\* the buttons resetGame() created are disabled by showCountdown
startMultiplayerRound ==
    /\ resetFields
    /\ showCountdown(pending)

toggleMultiplayer ==
    /\ page = "game"
    /\ isMultiplayer' = ~isMultiplayer
    /\ IF ~isMultiplayer
       THEN startMultiplayerRound
       ELSE /\ resetGame
            /\ UNCHANGED pending
    /\ UNCHANGED <<page, problemVars, currentOperation, timerVars, multiplayerTimer, turnDue,
                   orphanIntervals, announcement, confettiAnimating, notifications,
                   storeVars>>

startPlayerTurn ==
    /\ multiplayerTimer' = TurnSeconds
    /\ isMultiplayerRound' = TRUE
    /\ multiplayerInterval' = Live
    /\ turnDue' = IntervalUnits
    /\ orphanIntervals' = IF multiplayerInterval = Live
                          THEN BagAdd(orphanIntervals, turnDue)
                          ELSE orphanIntervals

\* the 1000 ms timeout of countdown step i: hide the number, wait 500 ms
countdownShowTimeout(i) ==
    /\ page = "game"
    /\ isDue(pending, <<"cdShow", i>>)
    /\ pending' = setTimeout(timeoutRuns(pending, <<"cdShow", i>>), <<"cdGap", i>>, GapUnits)
    /\ UNCHANGED <<page, problemVars, currentOperation, sessionVars, timerVars, roundVars,
                   optionsDisabled, announcement, confettiAnimating, statsShown,
                   notifications, lsReport, storeVars>>

\* the 500 ms timeout after step i: showNumber shows the next count, or after
\* the last one re-enables the options and runs the callback
countdownGapTimeout(i) ==
    /\ page = "game"
    /\ isDue(pending, <<"cdGap", i>>)
    /\ IF i < CountdownSteps
       THEN /\ pending' = setTimeout(timeoutRuns(pending, <<"cdGap", i>>),
                                     <<"cdShow", i + 1>>, ShowUnits)
            /\ UNCHANGED <<optionsDisabled, multiplayerTimer, isMultiplayerRound,
                           multiplayerInterval, turnDue, orphanIntervals>>
       ELSE /\ pending' = timeoutRuns(pending, <<"cdGap", i>>)
            /\ disableOptions(FALSE)
            /\ startPlayerTurn
    /\ UNCHANGED <<page, problemVars, currentOperation, sessionVars, timerVars, isMultiplayer,
                   currentPlayer, p1Score, p2Score, announcement, confettiAnimating,
                   statsShown, notifications, lsReport, storeVars>>

\* the first comparison made non-strict
winnerMessageNonStrict(p1, p2) ==
    IF p1 >= p2 THEN [kind |-> "p1wins", a |-> p1, b |-> p2, shown |-> TRUE]
    ELSE [kind |-> "p2wins", a |-> p2, b |-> p1, shown |-> TRUE]

winnerMessage(p1, p2) ==
    IF p1 > p2 THEN [kind |-> "p1wins", a |-> p1, b |-> p2, shown |-> TRUE]
    ELSE IF p2 > p1 THEN [kind |-> "p2wins", a |-> p2, b |-> p1, shown |-> TRUE]
    ELSE [kind |-> "tie", a |-> p1, b |-> p2, shown |-> TRUE]

startsConfetti(p1, p2) == p1 # p2

announceWinner ==
    /\ announcement' = winnerMessage(p1Score, p2Score)
    /\ confettiAnimating' = IF startsConfetti(p1Score, p2Score)
                            THEN TRUE ELSE confettiAnimating
    /\ pending' = setTimeout(pending, <<"summary", 0>>, SummaryUnits)
    /\ UNCHANGED <<currentPlayer, optionsDisabled>>

handleTurnEnd ==
    IF currentPlayer = 1
    THEN /\ currentPlayer' = 2
         /\ announcement' = [kind |-> "intermission", a |-> 0, b |-> 0, shown |-> TRUE]
         /\ disableOptions(TRUE)
         /\ pending' = setTimeout(pending, <<"interMsg", 0>>, IntermissionUnits)
         /\ UNCHANGED confettiAnimating
    ELSE announceWinner

\* the body of the interval callback of startPlayerTurn (game.js:502-510);
\* clearInterval is given whatever multiplayerInterval names at that moment
turnCallback ==
    /\ multiplayerTimer' = multiplayerTimer - 1
    /\ IF multiplayerTimer - 1 <= 0
       THEN /\ multiplayerInterval' = clearInterval(multiplayerInterval)
            /\ handleTurnEnd
       ELSE UNCHANGED <<multiplayerInterval, currentPlayer, announcement,
                        optionsDisabled, pending, confettiAnimating>>
    /\ UNCHANGED <<page, problemVars, currentOperation, sessionVars, timerVars, isMultiplayer,
                   p1Score, p2Score, isMultiplayerRound, statsShown, notifications,
                   lsReport, storeVars>>

\* the interval multiplayerInterval names is due and runs its callback
multiplayerTick ==
    /\ page = "game"
    /\ multiplayerInterval = Live /\ turnDue = 0
    /\ turnDue' = IntervalUnits
    /\ UNCHANGED orphanIntervals
    /\ turnCallback

\* an interval started by an earlier startPlayerTurn, which no handle names
\* any more, is due and runs the same callback
orphanTick ==
    /\ page = "game"
    /\ 0 \in DOMAIN orphanIntervals
    /\ orphanIntervals' = tickOf(orphanIntervals)
    /\ UNCHANGED turnDue
    /\ turnCallback

\* the 8000 ms timeout of handleTurnEnd
intermissionTimeout ==
    /\ page = "game"
    /\ isDue(pending, <<"interMsg", 0>>)
    /\ announcement' = [announcement EXCEPT !.shown = FALSE]
    /\ pending' = setTimeout(timeoutRuns(pending, <<"interMsg", 0>>),
                             <<"interGap", 0>>, GapUnits)
    /\ UNCHANGED <<page, problemVars, currentOperation, sessionVars, timerVars, roundVars,
                   optionsDisabled, confettiAnimating, statsShown, notifications,
                   lsReport, storeVars>>

\* the nested 500 ms timeout of handleTurnEnd: the second countdown starts
intermissionGapTimeout ==
    /\ page = "game"
    /\ isDue(pending, <<"interGap", 0>>)
    /\ showCountdown(timeoutRuns(pending, <<"interGap", 0>>))
    /\ UNCHANGED <<page, problemVars, currentOperation, sessionVars, timerVars, roundVars,
                   announcement, confettiAnimating, statsShown, notifications,
                   lsReport, storeVars>>

\* the 3000 ms timeout of announceWinner
summaryTimeout ==
    /\ page = "game"
    /\ isDue(pending, <<"summary", 0>>)
    /\ pending' = timeoutRuns(pending, <<"summary", 0>>)
    /\ announcement' = [announcement EXCEPT !.shown = FALSE]
    /\ isMultiplayer' = FALSE
    /\ resetGame
    /\ confettiAnimating' = FALSE
    /\ UNCHANGED <<page, problemVars, currentOperation, timerVars, multiplayerTimer, turnDue,
                   orphanIntervals, notifications, storeVars>>

\* Confetti.updateParticles: the animation stops itself once every particle
\* has left the canvas (game.js:681-684)
confettiSettles ==
    /\ page = "game"
    /\ confettiAnimating
    /\ confettiAnimating' = FALSE
    /\ UNCHANGED <<page, problemVars, currentOperation, sessionVars, timerVars, roundVars, pending,
                   optionsDisabled, announcement, statsShown, notifications,
                   lsReport, storeVars>>

-----------------------------------------------------------------------------
(* Time                                                                     *)

nothingDue ==
    /\ \A t \in DOMAIN pending : t[3] > 0
    /\ timerInterval = Live => timerDue > 0
    /\ multiplayerInterval = Live => turnDue > 0
    /\ 0 \notin DOMAIN orphanTimerIntervals
    /\ 0 \notin DOMAIN orphanIntervals

\* 500 ms pass; a timer that is due runs first
advance ==
    /\ page = "game"
    /\ nothingDue
    /\ pending' = elapseTimeouts(pending)
    /\ timerDue' = IF timerInterval = Live THEN timerDue - 1 ELSE timerDue
    /\ turnDue' = IF multiplayerInterval = Live THEN turnDue - 1 ELSE turnDue
    /\ orphanTimerIntervals' = elapseIntervals(orphanTimerIntervals)
    /\ orphanIntervals' = elapseIntervals(orphanIntervals)
    /\ UNCHANGED <<page, problemVars, currentOperation, sessionVars, timerActive, timeRemaining,
                   timerInterval, isMultiplayer, currentPlayer, p1Score, p2Score,
                   isMultiplayerRound, multiplayerTimer, multiplayerInterval,
                   optionsDisabled, announcement, confettiAnimating, statsShown,
                   notifications, lsReport, storeVars>>

-----------------------------------------------------------------------------
(* The game page: user input and timers, within the bounds                  *)

SampleAnswers == {6, 7}

AnswerWithin(attempts, seconds) ==
    \E selected \in SampleAnswers, correct \in SampleAnswers, elapsed \in seconds :
        /\ totalAttempts < attempts
        /\ NotificationCount < MaxNotifications
        /\ checkAnswer(selected, correct, elapsed)

ChangeOperation ==
    \E operation \in OperationChoices :
        /\ operation # currentOperation
        /\ setOperation(operation)

ChangeDifficulty ==
    \E difficulty \in DifficultyChoices :
        /\ difficulty # currentDifficulty
        /\ setDifficulty(difficulty)

ToggleTimer ==
    /\ timerActive \/ Len(recorded) < MaxRecords
    /\ toggleTimer

ToggleMultiplayerWithin(timeouts) ==
    /\ isMultiplayer \/ PendingCount < timeouts
    /\ toggleMultiplayer

CountdownShow == \E i \in 1..CountdownSteps : countdownShowTimeout(i)

CountdownGap ==
    \E i \in 1..CountdownSteps :
        /\ i = CountdownSteps /\ multiplayerInterval = Live =>
                BagSize(orphanIntervals) < MaxOrphans
        /\ countdownGapTimeout(i)

\* the per-turn callbacks, within the bounds on what an orphaned interval
\* may pile up
WithinOvershoot(timeouts) ==
    /\ multiplayerTimer > 1 \/ PendingCount < timeouts
    /\ multiplayerTimer > -MaxOvershoot

MultiplayerTickWithin(timeouts) ==
    /\ WithinOvershoot(timeouts)
    /\ multiplayerTick

OrphanTickWithin(timeouts) ==
    /\ WithinOvershoot(timeouts)
    /\ orphanTick

-----------------------------------------------------------------------------
(* Spec: every handler of the game page, one round's timeouts at a time     *)

Answer == AnswerWithin(MaxAttempts, 0..MaxElapsed)
ToggleMultiplayer == ToggleMultiplayerWithin(MaxPending)
MultiplayerTick == MultiplayerTickWithin(MaxPending + 2)
OrphanTick == OrphanTickWithin(MaxPending + 2)

Next ==
    \/ Answer
    \/ ChangeOperation
    \/ ChangeDifficulty
    \/ ToggleTimer
    \/ timerTick
    \/ timerEndTimeout
    \/ openGame
    \/ ToggleMultiplayer
    \/ CountdownShow
    \/ CountdownGap
    \/ MultiplayerTick
    \/ OrphanTick
    \/ intermissionTimeout
    \/ intermissionGapTimeout
    \/ summaryTimeout
    \/ confettiSettles
    \/ advance

Spec == Init /\ [][Next]_vars

-----------------------------------------------------------------------------
(* SpecTimer: the single-player game alone                                  *)

NextTimer ==
    \/ Answer
    \/ ToggleTimer
    \/ timerTick
    \/ timerEndTimeout
    \/ openGame
    \/ advance

SpecTimer == Init /\ [][NextTimer]_vars

-----------------------------------------------------------------------------
(* SpecRound: two-player mode switched on and off at any moment, so that    *)
(* the timeouts of up to MaxRoundPending rounds overlap; nobody answers     *)

RoundToggle == ToggleMultiplayerWithin(MaxRoundPending)
RoundTick == MultiplayerTickWithin(MaxRoundPending + 1)
RoundOrphanTick == OrphanTickWithin(MaxRoundPending + 1)

NextRound ==
    \/ RoundToggle
    \/ CountdownShow
    \/ CountdownGap
    \/ RoundTick
    \/ RoundOrphanTick
    \/ intermissionTimeout
    \/ intermissionGapTimeout
    \/ summaryTimeout
    \/ advance

SpecRound == Init /\ [][NextRound]_vars

-----------------------------------------------------------------------------
(* SpecMatch: rounds played with answers and changes of operation; the user *)
(* starts a round only when no timeout of an earlier one is left, and may   *)
(* stop it at any moment                                                    *)

RoundSeconds == {1}

RoundAnswer == AnswerWithin(MaxAttempts, RoundSeconds)

StartRound ==
    /\ ~isMultiplayer
    /\ pending = NoPending
    /\ toggleMultiplayer

StopRound ==
    /\ isMultiplayer
    /\ toggleMultiplayer

NextMatch ==
    \/ RoundAnswer
    \/ ChangeOperation
    \/ StartRound
    \/ StopRound
    \/ CountdownShow
    \/ CountdownGap
    \/ MultiplayerTick
    \/ intermissionTimeout
    \/ intermissionGapTimeout
    \/ summaryTimeout
    \/ confettiSettles
    \/ advance

SpecMatch == Init /\ [][NextMatch]_vars

-----------------------------------------------------------------------------
(* SpecSession: long runs of answers between two-player rounds; the user    *)
(* answers while no round is under way                                      *)

roundIdle == pending = NoPending /\ multiplayerInterval # Live

SessionAnswer ==
    /\ roundIdle
    /\ AnswerWithin(MaxSessionAttempts, RoundSeconds)

EnableMultiplayer ==
    /\ ~isMultiplayer
    /\ ToggleMultiplayerWithin(MaxPending)

NextSession ==
    \/ SessionAnswer
    \/ EnableMultiplayer
    \/ CountdownShow
    \/ CountdownGap
    \/ MultiplayerTick
    \/ intermissionTimeout
    \/ intermissionGapTimeout
    \/ summaryTimeout
    \/ advance

SpecSession == Init /\ [][NextSession]_vars

-----------------------------------------------------------------------------
(* SpecBoard: updateLeaderboard called on an empty or absent leaderboard    *)

InitBoard ==
    /\ page = "game"
    /\ ScriptStart
    /\ lsCurrentPlayer \in {Absent, "Ann"}
    /\ lsLeaderboard \in {NoBoard, JSONstringify(<<>>)}
    /\ lsReport = NoReport
    /\ recorded = <<>>

Record ==
    \E playerName \in {Absent, "Bo"}, newScore \in 0..MaxBoardScore :
        /\ Len(recorded) < MaxBoardCalls
        /\ lsLeaderboard' = updateLeaderboard(lsLeaderboard, playerName,
                                              lsCurrentPlayer, newScore)
        /\ recorded' = noteScore(recorded, newScore)
        /\ UNCHANGED <<page, problemVars, currentOperation, sessionVars, timerVars, roundVars,
                       pending, optionsDisabled, announcement, confettiAnimating,
                       statsShown, notifications, lsCurrentPlayer, lsReport>>

NextBoard == Record

SpecBoard == InitBoard /\ [][NextBoard]_vars

-----------------------------------------------------------------------------
(* SpecStored: the single-player game on whatever the leaderboard item      *)
(* holds: nothing, an array, or text JSON.parse rejects                     *)

InitStored ==
    /\ page = "game"
    /\ ScriptStart
    /\ lsCurrentPlayer = "Ann"
    /\ lsLeaderboard \in {NoBoard, JSONstringify(<<>>), MalformedBoard}
    /\ lsReport = NoReport
    /\ recorded = <<>>

SpecStored == InitStored /\ [][NextTimer]_vars

-----------------------------------------------------------------------------
(* SpecPlay: answers, the single-player countdown and two-player rounds     *)
(* interleaved; the user starts the countdown at any moment and lets it     *)
(* run, and leaves two-player mode only while a turn is being played        *)

StartTimer ==
    /\ ~timerActive
    /\ ToggleTimer

StopTurn ==
    /\ pending = NoPending
    /\ StopRound

NextPlay ==
    \/ RoundAnswer
    \/ StartTimer
    \/ timerTick
    \/ timerEndTimeout
    \/ StartRound
    \/ StopTurn
    \/ CountdownShow
    \/ CountdownGap
    \/ MultiplayerTick
    \/ intermissionTimeout
    \/ intermissionGapTimeout
    \/ summaryTimeout
    \/ confettiSettles
    \/ advance

SpecPlay == Init /\ [][NextPlay]_vars

-----------------------------------------------------------------------------
(* SpecFair: a user who starts the countdown and two-player rounds and      *)
(* never switches two-player mode off; the browser runs every due timer     *)
(* and time goes on                                                         *)

NextFair ==
    \/ ToggleTimer
    \/ EnableMultiplayer
    \/ timerTick
    \/ timerEndTimeout
    \/ CountdownShow
    \/ CountdownGap
    \/ MultiplayerTick
    \/ intermissionTimeout
    \/ intermissionGapTimeout
    \/ summaryTimeout
    \/ advance

TimersRun ==
    /\ WF_vars(timerTick)
    /\ WF_vars(timerEndTimeout)
    /\ WF_vars(CountdownShow)
    /\ WF_vars(CountdownGap)
    /\ WF_vars(MultiplayerTick)
    /\ WF_vars(intermissionTimeout)
    /\ WF_vars(intermissionGapTimeout)
    /\ WF_vars(summaryTimeout)
    /\ WF_vars(advance)

SpecFair == Init /\ [][NextFair]_vars /\ TimersRun

-----------------------------------------------------------------------------
(* Problem generation (game.js:65-69, 258-345)                              *)

Difficulties == {"easy", "medium", "hard"}

difficultyRanges ==
    [easy |-> [min |-> 1, max |-> 10],
     medium |-> [min |-> 10, max |-> 25],
     hard |-> [min |-> 25, max |-> 100]]

\* Math.random(): a fraction in [0, 1), here one of `steps` evenly spaced ones
Randoms(steps) == {[num |-> k, den |-> steps] : k \in 0..(steps - 1)}

\* Math.floor(r * m)
floorOf(r, m) == (r.num * m) \div r.den

\* Math.round(r * m) in place of Math.floor
generateNumberRounded(difficulty, r) ==
    LET range == difficultyRanges[difficulty]
    IN ((2 * r.num * (range.max - range.min + 1) + r.den) \div (2 * r.den)) + range.min

generateNumber(difficulty, r) ==
    LET range == difficultyRanges[difficulty]
    IN floorOf(r, range.max - range.min + 1) + range.min

calculateAnswer(operation, num1, num2) ==
    CASE operation = "addition" -> whole(num1 + num2)
      [] operation = "subtraction" -> whole(num1 - num2)
      [] operation = "multiplication" -> whole(num1 * num2)
      [] operation = "division" -> quotient(num1, num2)

\* the operands and the answer generateNewProblem computes from two results
\* of Math.random()
problemOf(operation, difficulty, r1, r2) ==
    LET num1 == generateNumber(difficulty, r1)
        num2 == generateNumber(difficulty, r2)
    IN IF operation = "division"
       THEN [num1 |-> num1 * num2, num2 |-> num2,
             answer |-> quotient(num1 * num2, num2), generated |-> TRUE]
       ELSE [num1 |-> num1, num2 |-> num2,
             answer |-> calculateAnswer(operation, num1, num2), generated |-> TRUE]

\* generateNewProblem up to its call of generateOptions
GenerateProblem ==
    /\ page = "game"
    /\ Len(mathRandom) >= 2
    /\ currentProblem' = problemOf(currentOperation, currentDifficulty,
                                   mathRandom[1], mathRandom[2])
    /\ mathRandom' = SubSeq(mathRandom, 3, Len(mathRandom))
    /\ UNCHANGED <<page, currentOperation, currentDifficulty, options, sessionVars,
                   timerVars, roundVars, pending, optionsDisabled, announcement,
                   confettiAnimating, statsShown, notifications, lsReport, storeVars>>

\* an includes() that never finds the value
includesNever(list, x) == FALSE

\* Array.prototype.includes
includes(list, x) == \E i \in 1..Len(list) : list[i] = x

\* the candidate of one pass of the while loop of generateOptions
newOptionOf(correctAnswer, r1, r2) ==
    LET offset == floorOf(r1, OffsetRange) + 1
    IN IF 2 * r2.num < r2.den THEN correctAnswer + offset ELSE correctAnswer - offset

\* one pass of the while loop: the candidate is pushed unless it is there
pushOption ==
    /\ page = "game"
    /\ ~options.shown
    /\ Len(options.values) < OptionCount
    /\ \E r1 \in Randoms(OptionRandomSteps), r2 \in Randoms(OptionRandomSteps) :
         LET newOption == newOptionOf(currentProblem.answer.value, r1, r2)
         IN options' = IF includes(options.values, newOption)
                       THEN options
                       ELSE [options EXCEPT !.values = Append(@, newOption)]
    /\ UNCHANGED <<page, currentOperation, currentDifficulty, currentProblem, mathRandom,
                   sessionVars, timerVars, roundVars, pending, optionsDisabled,
                   announcement, confettiAnimating, statsShown, notifications,
                   lsReport, storeVars>>

\* options.sort(() => Math.random() - 0.5): the comparator is inconsistent, so
\* the order is whatever the engine's sort makes of it: some rearrangement
shuffles(list) ==
    {[i \in 1..Len(list) |-> list[f[i]]] :
        f \in {g \in [1..Len(list) -> 1..Len(list)] :
                  \A i, j \in 1..Len(list) : i # j => g[i] # g[j]}}

\* the loop has ended: shuffle, then one new button per option
showOptions ==
    /\ page = "game"
    /\ ~options.shown
    /\ Len(options.values) >= OptionCount
    /\ \E shuffled \in shuffles(options.values) :
         options' = [values |-> shuffled, shown |-> TRUE]
    /\ generateNewProblem
    /\ UNCHANGED <<page, currentOperation, currentDifficulty, currentProblem, mathRandom,
                   sessionVars, timerVars, roundVars, pending, announcement,
                   confettiAnimating, statsShown, notifications, lsReport, storeVars>>

-----------------------------------------------------------------------------
(* SpecProblem: generateNewProblem for every operation and difficulty, on   *)
(* two results of Math.random()                                             *)

InitProblem ==
    /\ page = "game"
    /\ GameStart
    /\ currentOperation \in Operations
    /\ currentDifficulty \in Difficulties
    /\ currentProblem = NoProblem
    /\ options = NoOptions
    /\ mathRandom \in [1..2 -> Randoms(RandomSteps)]
    /\ lsCurrentPlayer = "Ann"
    /\ lsLeaderboard = NoBoard
    /\ lsReport = NoReport
    /\ recorded = <<>>

NextProblem == GenerateProblem

SpecProblem == InitProblem /\ [][NextProblem]_vars

-----------------------------------------------------------------------------
(* SpecOptions: generateOptions(correctAnswer) on answers around 0          *)

InitOptions ==
    /\ page = "game"
    /\ GameStart
    /\ currentOperation = "subtraction"
    /\ currentDifficulty = "easy"
    /\ \E correctAnswer \in (0 - MaxAnswer)..MaxAnswer :
         /\ currentProblem = [num1 |-> 0, num2 |-> 0, answer |-> whole(correctAnswer),
                              generated |-> TRUE]
         /\ options = [values |-> <<correctAnswer>>, shown |-> FALSE]
    /\ mathRandom = <<>>
    /\ lsCurrentPlayer = "Ann"
    /\ lsLeaderboard = NoBoard
    /\ lsReport = NoReport
    /\ recorded = <<>>

NextOptions ==
    \/ pushOption
    \/ showOptions

SpecOptions == InitOptions /\ [][NextOptions]_vars

-----------------------------------------------------------------------------
(* Claims                                                                   *)

Min(a, b) == IF a < b THEN a ELSE b

RemoveAt(list, i) == SubSeq(list, 1, i - 1) \o SubSeq(list, i + 1, Len(list))

ScoresOf(entries) == [i \in 1..Len(entries) |-> entries[i].score]

WinnerKinds == {"p1wins", "p2wins", "tie"}

\* the step is a run of startPlayerTurn: the last countdown gap has run out
TurnStarts ==
    PendingOf(pending', <<"cdGap", CountdownSteps>>)
        < PendingOf(pending, <<"cdGap", CountdownSteps>>)

\* the step is a run of announceWinner: it leaves one more summary timeout
WinnerAnnounced ==
    PendingOf(pending', <<"summary", 0>>) > PendingOf(pending, <<"summary", 0>>)

\* the step is the tick that takes the single-player countdown to 0
CountdownExpires == timeRemaining' = timeRemaining - 1 /\ timeRemaining' <= 0

\* C1: every checkAnswer call adds exactly one attempt; when the selected
\* option is the correct answer it adds one to score and to streak, otherwise
\* it leaves score alone and sets streak to 0; streak is never negative.
C1_SubmitAnswer ==
    [][/\ \A selected \in SampleAnswers, correct \in SampleAnswers, elapsed \in 0..MaxElapsed :
            checkAnswer(selected, correct, elapsed) =>
                /\ totalAttempts' = totalAttempts + 1
                /\ IF selected = correct
                   THEN score' = score + 1 /\ streak' = streak + 1
                   ELSE score' = score /\ streak' = 0
       /\ totalAttempts' > totalAttempts =>
            \E selected \in SampleAnswers, correct \in SampleAnswers, elapsed \in 0..MaxElapsed :
                checkAnswer(selected, correct, elapsed)
       /\ streak' >= 0]_vars

\* a correct answer followed by a wrong one
C1_Witness == totalAttempts = 2 /\ score = 1 /\ streak = 0 /\ statsShown.score = 1

\* C2: from an empty or absent leaderboard, after N updateLeaderboard calls
\* the stored list has min(N, 5) entries, is ordered by non-increasing score
\* and holds exactly the highest scores among all those recorded.
C2_TopFive ==
    LET entries == JSONparse(lsLeaderboard)
        n == Len(recorded)
    IN /\ lsLeaderboard.tag = "json" \/ n = 0
       /\ Len(entries) = Min(n, BoardSize)
       /\ \A i \in 1..Len(entries), j \in 1..Len(entries) :
            i < j => entries[i].score >= entries[j].score
       /\ ScoresOf(entries) = SubSeq(recorded, 1, Min(n, BoardSize))

\* more than five calls, and the dropped score is lower than every kept one
C2_Witness ==
    /\ Len(recorded) > BoardSize
    /\ Len(lsLeaderboard.entries) = BoardSize
    /\ lsLeaderboard.entries[1].score > lsLeaderboard.entries[BoardSize].score
    /\ lsLeaderboard.entries[BoardSize].score > recorded[Len(recorded)]

\* C3: the tick that takes the single-player countdown to 0 records exactly
\* one leaderboard entry, carrying the score held before the reset, and
\* leaves score, streak, totalAttempts and totalTime at 0.
C3_ExpiryRecordsThenResets ==
    [][CountdownExpires =>
            LET old == JSONparse(lsLeaderboard)
                new == JSONparse(lsLeaderboard')
            IN /\ lsLeaderboard'.tag = "json"
               /\ Len(recorded') = Len(recorded) + 1
               /\ Len(old) < BoardSize =>
                    \E i \in 1..Len(new) :
                        /\ new[i].score = score
                        /\ new[i].name = resolveName(lsCurrentPlayer, lsCurrentPlayer)
                        /\ RemoveAt(new, i) = old
               /\ announcement'.kind = "timerEnd" /\ announcement'.a = score
               /\ score' = 0 /\ streak' = 0 /\ totalAttempts' = 0 /\ totalTime' = 0]_vars

\* the countdown has expired with a score above 0: it is on the board and the
\* session is back at 0
C3_Witness ==
    /\ page = "game"
    /\ timeRemaining = 0
    /\ Len(lsLeaderboard.entries) = 1
    /\ lsLeaderboard.entries[1].score = 2
    /\ announcement.kind = "timerEnd" /\ announcement.a = 2
    /\ score = 0 /\ streak = 0 /\ totalAttempts = 0 /\ totalTime = 0

\* C4: while two-player mode is off no round is active, no per-turn interval
\* runs, and p1Score, p2Score and currentPlayer keep their reset values.
C4_DisableCancelsRound ==
    ~isMultiplayer =>
        /\ ~isMultiplayerRound
        /\ multiplayerInterval # Live
        /\ orphanIntervals = NoIntervals
        /\ p1Score = 0 /\ p2Score = 0 /\ currentPlayer = 1

\* C5: at most one single-player interval and at most one per-turn interval
\* is live: starting one never leaves an earlier one of its kind running.
C5_OneIntervalPerKind ==
    /\ orphanTimerIntervals = NoIntervals
    /\ orphanIntervals = NoIntervals

\* C6: every step that toggles the timer or two-player mode, and the tick
\* that takes the countdown to 0, leaves score, streak, totalAttempts and
\* totalTime at 0.
C6_TogglesResetSession ==
    [][(\/ timerActive' # timerActive
        \/ isMultiplayer' # isMultiplayer
        \/ CountdownExpires) =>
            (score' = 0 /\ streak' = 0 /\ totalAttempts' = 0 /\ totalTime' = 0)]_vars

\* C7: once two-player mode is on, and the user does not switch it off, the
\* round reaches the winner summary, whatever the single-player countdown does.
C7_RoundReachesSummary ==
    isMultiplayer ~> (announcement.kind \in WinnerKinds /\ announcement.shown)

\* C8: a player's turn starts only when no turn is running, and the winner is
\* announced only by the tick that takes Player 2's running turn to 0.
C8_PhaseOrder ==
    [][/\ TurnStarts => (multiplayerInterval # Live /\ orphanIntervals = NoIntervals)
       /\ WinnerAnnounced =>
                (currentPlayer = 2 /\ multiplayerTimer = 1
                 /\ orphanIntervals = NoIntervals)]_vars

\* C9: announceWinner shows "Player 1 wins" exactly when p1Score > p2Score,
\* "Player 2 wins" exactly when p2Score > p1Score and a tie exactly when they
\* are equal, and starts the confetti exactly when it is not a tie.
C9_WinnerAnnounced ==
    [][WinnerAnnounced =>
            /\ announcement'.shown
            /\ announcement'.kind = "p1wins" <=> p1Score > p2Score
            /\ announcement'.kind = "p2wins" <=> p2Score > p1Score
            /\ announcement'.kind = "tie" <=> p1Score = p2Score
            /\ announcement'.kind = "p1wins" => announcement'.a = p1Score /\ announcement'.b = p2Score
            /\ announcement'.kind = "p2wins" => announcement'.a = p2Score /\ announcement'.b = p1Score
            /\ p1Score # p2Score => confettiAnimating'
            /\ p1Score = p2Score => confettiAnimating' = confettiAnimating]_vars

\* a round that ended 1 : 1 is announced as a tie, without confetti
C9_Witness ==
    /\ announcement = [kind |-> "tie", a |-> 1, b |-> 1, shown |-> TRUE]
    /\ PendingOf(pending, <<"summary", 0>>) > 0
    /\ ~confettiAnimating

\* C10: the accuracy achievement is shown at most once in a session.
C10_AccuracyOnce == notifications["accuracy100_15"] <= 1

\* C15: generateOptions shows exactly 4 pairwise distinct options, one of
\* them the correct answer, each of the others between 1 and 5 away from it.
C15_FourDistinctOptions ==
    options.shown =>
        LET values == options.values
            c == currentProblem.answer.value
        IN /\ Len(values) = 4
           /\ \A i, j \in 1..Len(values) : i # j => values[i] # values[j]
           /\ \E i \in 1..Len(values) : values[i] = c
           /\ \A i \in 1..Len(values) :
                values[i] # c =>
                    \/ (values[i] - c >= 1 /\ values[i] - c <= 5)
                    \/ (c - values[i] >= 1 /\ c - values[i] <= 5)

\* a negative answer shown last, with options 5 below and 5 above it
C15_Witness ==
    /\ options.shown
    /\ currentProblem.answer.value = 0 - MaxAnswer
    /\ options.values[4] = currentProblem.answer.value
    /\ \E i, j \in 1..3 : /\ options.values[i] = currentProblem.answer.value - 5
                          /\ options.values[j] = currentProblem.answer.value + 5

\* C16: for addition, subtraction and multiplication both operands lie in the
\* difficulty's range and the answer is operand1 <op> operand2; for division
\* operand2 lies in the range and is not 0, operand1 is a multiple of it and
\* the answer is the integer operand1 / operand2.
C16_ProblemInRange ==
    currentProblem.generated =>
        LET range == difficultyRanges[currentDifficulty]
            num1 == currentProblem.num1
            num2 == currentProblem.num2
            answer == currentProblem.answer
            inRange(n) == range.min <= n /\ n <= range.max
        IN /\ answer.whole
           /\ currentOperation = "addition" =>
                inRange(num1) /\ inRange(num2) /\ answer.value = num1 + num2
           /\ currentOperation = "subtraction" =>
                inRange(num1) /\ inRange(num2) /\ answer.value = num1 - num2
           /\ currentOperation = "multiplication" =>
                inRange(num1) /\ inRange(num2) /\ answer.value = num1 * num2
           /\ currentOperation = "division" =>
                /\ inRange(num2) /\ num2 # 0
                /\ num1 % num2 = 0
                /\ answer.value * num2 = num1

\* a hard division whose divisor is the top of the range
C16_Witness ==
    /\ currentProblem.generated
    /\ currentOperation = "division" /\ currentDifficulty = "hard"
    /\ currentProblem.num2 = 100 /\ currentProblem.num1 = 2500
    /\ currentProblem.answer = whole(25)

\* C11: an answer awards the streak achievement with threshold T exactly
\* when it leaves streak equal to T, once per landing; no other step and no
\* other streak value awards it.
C11_StreakAwardOnLanding ==
    [][\A a \in streaks :
            notifications'[a.id] =
                notifications[a.id]
                    + (IF totalAttempts' = totalAttempts + 1 /\ streak' = a.requirement
                       THEN 1 ELSE 0)]_vars

\* the streak reached 5, was broken by a wrong answer and reached 5 again
C11_Witness ==
    /\ totalAttempts = 11 /\ score = 10 /\ streak = 5
    /\ notifications["streak5"] = 2
    /\ notifications["streak10"] = 0

\* the step is a run of checkAnswer
AnswerSubmitted == totalAttempts' = totalAttempts + 1

\* C12: in an active round a correct answer adds 1 to the current player's
\* score and leaves the other player's alone; a wrong answer, and any answer
\* outside a round, leaves both scores alone.
C12_AnswerCreditsCurrentPlayer ==
    [][AnswerSubmitted =>
            LET isCorrect == score' = score + 1
            IN /\ (isMultiplayerRound /\ isCorrect /\ currentPlayer = 1) =>
                    (p1Score' = p1Score + 1 /\ p2Score' = p2Score)
               /\ (isMultiplayerRound /\ isCorrect /\ currentPlayer = 2) =>
                    (p2Score' = p2Score + 1 /\ p1Score' = p1Score)
               /\ (isMultiplayerRound /\ ~isCorrect) =>
                    (p1Score' = p1Score /\ p2Score' = p2Score)
               /\ ~isMultiplayerRound =>
                    (p1Score' = p1Score /\ p2Score' = p2Score)
               /\ currentPlayer \in {1, 2}]_vars

\* Player 2 has just been credited in a round in which Player 1 scored too,
\* both answers of the session correct
C12_Witness ==
    /\ isMultiplayerRound /\ currentPlayer = 2 /\ multiplayerInterval = Live
    /\ p1Score = 1 /\ p2Score = 1
    /\ streak = 2 /\ score = 2 /\ totalAttempts = 2

\* a countdown of the running round is on the screen or between two steps
countdownRunning ==
    /\ isMultiplayer
    /\ \E i \in 1..CountdownSteps :
         PendingOf(pending, <<"cdShow", i>>) + PendingOf(pending, <<"cdGap", i>>) > 0

\* C13: from the start of showCountdown until its callback runs the options
\* stay disabled, so no answer is submitted, also when the operation is
\* changed meanwhile; the callback runs once, after the last step.
C13_InputDisabledInCountdown ==
    [][/\ countdownRunning => optionsDisabled
       /\ (countdownRunning /\ AnswerSubmitted) => FALSE
       /\ TurnStarts => PendingOf(pending, <<"cdGap", CountdownSteps>>) = 1]_vars

\* C14: the accuracy and the average time computed for 0 attempts are 0,
\* never NaN: on the statistics line and in the stored report.
C14_ZeroAttemptsGiveZero ==
    /\ ~statsShown.accuracy.nan
    /\ totalAttempts = 0 => statsShown.accuracy.value = 0
    /\ (totalAttempts = 0 /\ lsReport.written) =>
            (lsReport.accuracy = 0 /\ lsReport.avgTime = 0)

\* the step is a run of updateLeaderboard
ScoreRecorded == Len(recorded') = Len(recorded) + 1

\* C17: the tick that takes the countdown to 0 completes the expiry whatever
\* the leaderboard item holds: the end-of-game message is shown and score,
\* streak, totalAttempts and totalTime are back at 0.
C17_MalformedBoardNotFatal ==
    [][CountdownExpires =>
            /\ announcement'.kind = "timerEnd" /\ announcement'.shown
            /\ PendingOf(pending', <<"timerEnd", 0>>) = 1
            /\ score' = 0 /\ streak' = 0 /\ totalAttempts' = 0 /\ totalTime' = 0
            /\ statsShown'.score = 0 /\ statsShown'.streak = 0]_vars

\* C18: once the countdown has expired the timer mode is off, so the next
\* toggleTimer starts a fresh countdown from 30.
C18_IdleAfterExpiry ==
    [][/\ CountdownExpires => ~timerActive'
       /\ (timerActive' # timerActive /\ timeRemaining <= 0) =>
            (timerActive' /\ timeRemaining' = TimerStart /\ timerInterval' = Live)]_vars

\* C19: a recorded entry goes behind every stored entry of the same or a
\* higher score and the stored entries keep their order, so an entry that
\* ties with the 5th of a full leaderboard is the one dropped.
C19_StableTies ==
    [][ScoreRecorded =>
            LET old == JSONparse(lsLeaderboard)
                new == JSONparse(lsLeaderboard')
            IN \E n \in {"Ann", "Bo", "Anonymous"}, s \in 0..MaxBoardScore :
                 LET e == [name |-> n, score |-> s]
                     all == SelectSeq(old, LAMBDA x : x.score >= s) \o <<e>>
                                \o SelectSeq(old, LAMBDA x : x.score < s)
                 IN /\ recorded' = noteScore(recorded, s)
                    /\ new = SubSeq(all, 1, Min(Len(all), BoardSize))
                    /\ (Len(old) = BoardSize /\ old[BoardSize].score = s) =>
                            new = old]_vars

\* a sixth score that ties with the 5th place was recorded, and the 4th and
\* 5th places hold equal scores under different names
C19_Witness ==
    /\ Len(recorded) = BoardSize + 1
    /\ recorded[BoardSize + 1] = recorded[BoardSize]
    /\ Len(lsLeaderboard.entries) = BoardSize
    /\ lsLeaderboard.entries[BoardSize - 1].score = lsLeaderboard.entries[BoardSize].score
    /\ lsLeaderboard.entries[BoardSize - 1].name # lsLeaderboard.entries[BoardSize].name

\* C20: score never exceeds totalAttempts.
C20_ScoreAtMostAttempts == score <= totalAttempts

\* a countdown was started after answers, then a round was played to its
\* second turn with one wrong and one correct answer
C20_Witness ==
    /\ timerActive /\ timeRemaining < TimerStart
    /\ isMultiplayerRound /\ currentPlayer = 2
    /\ totalAttempts = 2 /\ score = 1

\* C21: the run of consecutive correct answers never exceeds the session
\* score: streak <= score.
C21_StreakAtMostScore == streak <= score

\* C22: the timer values stay in range: 0 <= timeRemaining <= 30 and
\* 0 <= multiplayerTimer <= 15.
C22_TimersInRange ==
    /\ timeRemaining \in 0..TimerStart
    /\ multiplayerTimer \in 0..TurnSeconds

\* the step is a run of handleTurnEnd: a tick of a per-turn interval that
\* finds multiplayerTimer at 0 or below after its decrement
TurnEnds == multiplayerTimer' = multiplayerTimer - 1 /\ multiplayerTimer' <= 0

\* C23: a started turn ends exactly once: handleTurnEnd runs only on the tick
\* that takes the timer set by startPlayerTurn from 1 to 0, never on a later
\* tick of the same turn, and announceWinner runs at most once per round:
\* never while the summary of an earlier announcement is pending.
C23_TurnEndsOnce ==
    [][/\ TurnEnds => multiplayerTimer' = 0
       /\ WinnerAnnounced => PendingOf(pending, <<"summary", 0>>) = 0]_vars

\* C24: a round is active only while two-player mode is enabled: when
\* isMultiplayerRound is true or a per-turn interval is running,
\* isMultiplayer is true.
C24_RoundOnlyInMultiplayer ==
    (\/ isMultiplayerRound
     \/ multiplayerInterval = Live
     \/ orphanIntervals # NoIntervals) => isMultiplayer

\* C25: a player's score changes only during that player's own turn:
\* p1Score rises only while Player 1's turn timer is running and p2Score
\* only while Player 2's is, so no answer is credited during the countdown,
\* the intermission or the winner summary.
C25_ScoreOnlyInOwnTurn ==
    [][/\ p1Score' > p1Score => (currentPlayer = 1 /\ multiplayerInterval = Live)
       /\ p2Score' > p2Score => (currentPlayer = 2 /\ multiplayerInterval = Live)]_vars

====
